---- MODULE Spec2Model ----
(***************************************************************************)
(* Page flow of the two jsPDF renderers of ready-resume-ai:                *)
(*   generatePDF           (src/src/pages/ResumeGenerator.tsx, 407-555)     *)
(*   generateInterviewPDF  (src/src/utils/pdfGenerator.ts, 12-74), called   *)
(*   from handleDownloadPDF (src/src/pages/InterviewCoach.tsx, 150-163).    *)
(*                                                                         *)
(* A render call walks through its statements; pc is its position.  Every  *)
(* text block of the input is abstracted to the number of lines jsPDF      *)
(* draws for it: the length of doc.splitTextToSize(text, width) for a      *)
(* wrapped block, the number of newline separated lines for a string       *)
(* handed to doc.text directly.  The input is read token by token:         *)
(*   text block      n >= 1  lines of the block (0 where the field may be  *)
(*                           undefined)                                    *)
(*   loop head       0 = no further entry, n >= 1 = an entry follows       *)
(* Lengths are in mm as in the code.  doc.text(lines, x, y) draws every    *)
(* line of the array on the current page, line k at                        *)
(* y + (k-1) * fontSize * 1.15 pt; drawn positions are compared in units   *)
(* of 1/7200 mm, where 1 pt * 1.15 = 2921 units exactly.                   *)
(*                                                                         *)
(* The InterviewCoach page (src/src/pages/InterviewCoach.tsx, 34-148) is   *)
(* modelled by coach and net: its React state, the endpoint table of       *)
(* src/src/config.ts and the one request it has in flight.                 *)
(*                                                                         *)
(* The form of the ResumeGenerator page (src/src/pages/ResumeGenerator.tsx *)
(* 116-405) is modelled by form: which required fields of resumeData are   *)
(* empty, the validation errors on display, and the generate request.      *)
(* route is the page the router of src/src/App.tsx has mounted.            *)
(***************************************************************************)
EXTENDS Integers, Sequences, FiniteSets, TLC

VARIABLES rs, cursor, tape, outs, coach, net, form, route

vars == <<rs, cursor, tape, outs, coach, net, form, route>>

\* ---------------------------------------------------------------- bounds
MaxLines == 8
MaxEntries == 2
MaxDesc == 1
MaxTape == 9
TallLines == 60
MaxSessions == 2
MaxMessages == 5
\* the required fields of the form left empty at a time
MaxEmpty == 2

Calls == {1, 2}

\* the tokens an input field is drawn from: 0, short blocks, one long block
Tokens == {0, 1, 3, MaxLines}

\* the tokens of the documents that are rendered twice
PairTokens == {0, 1, MaxLines}

\* the tokens of documents with blocks taller than the usable page height
TallTokens == {0, 1, TallLines}

\* ------------------------------------------------------- program constants
margin == 20
lineHeight == 7
pageHeight == 297

UnitsPerMm == 7200
LeadingPerPt == 2921

NoDraw == [page |-> 0, y |-> 0, n |-> 0, fs |-> 0, role |-> "none"]

Idle == [kind |-> "none", pc |-> "idle", pages |-> 0, i |-> 0, j |-> 0,
         last |-> NoDraw, prev |-> NoDraw,
         nameMissing |-> FALSE, delivered |-> FALSE, toast |-> FALSE]

\* ------------------------------------------------------------ pure helpers
\* `let yPos = margin` / `let y = margin` is a binding of the call: every call
\* owns its cursor cell.
SharedCursorOwner(c) == 1

CursorOwner(c) == c

\* yPos + contentHeight <= pageHeight - margin
willContentFit(yPos, contentHeight) == yPos + contentHeight <= pageHeight - margin

\* y > doc.internal.pageSize.getHeight() - margin
NeedsNewPage(y) == y > pageHeight - margin

\* return y + (splitText.length * lineHeight)
addWrappedText(y, n) == y + (n * lineHeight)

\* position, in 1/7200 mm, of line k (1..n) of the draw d
TextLineY(d, k) == d.y * UnitsPerMm + (k - 1) * d.fs * LeadingPerPt

FirstLineY(d) == TextLineY(d, 1)
LastLineY(d) == TextLineY(d, d.n)
Limit == (pageHeight - margin) * UnitsPerMm

\* doc.text(lines, x, y): all n lines go on the current page of the call
Drawn(s, y, n, fs, role) ==
    [s EXCEPT !.prev = s.last,
              !.last = [page |-> s.pages, y |-> y, n |-> n, fs |-> fs, role |-> role]]

addPageTwice(s) == [s EXCEPT !.pages = s.pages + 2]

\* doc.addPage()
addPage(s) == [s EXCEPT !.pages = s.pages + 1]

\* the cursor of call c
Y(c) == cursor[CursorOwner(c)]

\* a step of call c ends in render state s with the cursor at y
Put(c, s, y) ==
    /\ rs' = [rs EXCEPT ![c] = s]
    /\ cursor' = [cursor EXCEPT ![CursorOwner(c)] = y]

\* ------------------------------------------- generateInterviewPDF and caller
\* handleDownloadPDF: `if (!interviewAnalysis) return;` (token 0), else the
\* call of generateInterviewPDF: new jsPDF(), y = margin (token 1)
handleDownloadPDF(c, in) ==
    /\ rs[c].pc = "idle"
    /\ in \in {0, 1}
    /\ IF in = 0
         THEN Put(c, [rs[c] EXCEPT !.pc = "noop"], Y(c))
         ELSE Put(c, [Idle EXCEPT !.kind = "interview", !.pc = "iTitle", !.pages = 1],
                  margin)

\* lines 19-22: 'Interview Analysis Report', font 20
ITitle(c, in) ==
    /\ rs[c].pc = "iTitle"
    /\ in = 1
    /\ Put(c, [Drawn(rs[c], Y(c), 1, 20, "reportTitle") EXCEPT !.pc = "iQaTitle"],
           Y(c) + lineHeight * 2)

\* lines 24-27: 'Question-by-Question Analysis', font 16
IQaTitle(c, in) ==
    /\ rs[c].pc = "iQaTitle"
    /\ in = 1
    /\ Put(c, [Drawn(rs[c], Y(c), 1, 16, "heading") EXCEPT !.pc = "iLoop"],
           Y(c) + lineHeight * 2)

\* lines 29-39: the head of one forEach iteration: the page check, then the
\* label `Question ${index + 1}:`; token 0 ends the list
IQuestionLabel(c, in) ==
    /\ rs[c].pc = "iLoop"
    /\ in \in {0, 1}
    /\ IF in = 0
         THEN Put(c, [rs[c] EXCEPT !.pc = "iOverallTitle"], Y(c))
         ELSE /\ rs[c].i < MaxEntries
              /\ LET s1 == IF NeedsNewPage(Y(c)) THEN addPage(rs[c]) ELSE rs[c]
                     y1 == IF NeedsNewPage(Y(c)) THEN margin ELSE Y(c)
                 IN Put(c, [Drawn(s1, y1, 1, 14, "label") EXCEPT !.pc = "iQuestion"],
                        y1 + lineHeight)

\* lines 40-42: doc.text(qa.question, ...): the string is not wrapped; jsPDF
\* rejects an undefined text (token 0) with an Error
IQuestion(c, in) ==
    /\ rs[c].pc = "iQuestion"
    /\ IF in = 0
         THEN Put(c, [rs[c] EXCEPT !.pc = "thrown"], Y(c))
         ELSE Put(c, [Drawn(rs[c], Y(c), in, 12, "question") EXCEPT !.pc = "iAnswerLabel"],
                  Y(c) + lineHeight * 2)

\* lines 44-47: 'Your Answer:'
IAnswerLabel(c, in) ==
    /\ rs[c].pc = "iAnswerLabel"
    /\ in = 1
    /\ Put(c, [Drawn(rs[c], Y(c), 1, 14, "label") EXCEPT !.pc = "iAnswer"],
           Y(c) + lineHeight)

\* lines 48-51: the wrapped answer
IAnswer(c, in) ==
    /\ rs[c].pc = "iAnswer"
    /\ in >= 1
    /\ Put(c, [Drawn(rs[c], Y(c), in, 12, "answer") EXCEPT !.pc = "iFeedbackLabel"],
           Y(c) + lineHeight * (in + 1))

\* lines 53-56: 'Feedback:'
IFeedbackLabel(c, in) ==
    /\ rs[c].pc = "iFeedbackLabel"
    /\ in = 1
    /\ Put(c, [Drawn(rs[c], Y(c), 1, 14, "label") EXCEPT !.pc = "iFeedback"],
           Y(c) + lineHeight)

\* lines 57-60: the wrapped feedback, end of the iteration
IFeedback(c, in) ==
    /\ rs[c].pc = "iFeedback"
    /\ in >= 1
    /\ Put(c, [Drawn(rs[c], Y(c), in, 12, "feedback") EXCEPT !.pc = "iLoop", !.i = @ + 1],
           Y(c) + lineHeight * (in + 2))

IOverallTitleSamePage(c, in) ==
    /\ rs[c].pc = "iOverallTitle"
    /\ in = 1
    /\ Put(c, [Drawn(rs[c], Y(c), 1, 16, "overallTitle") EXCEPT !.pc = "iOverall"],
           Y(c) + lineHeight * 2)

\* lines 63-68: doc.addPage(); y = margin; 'Overall Analysis', font 16
IOverallTitle(c, in) ==
    /\ rs[c].pc = "iOverallTitle"
    /\ in = 1
    /\ Put(c, [Drawn(addPage(rs[c]), margin, 1, 16, "overallTitle") EXCEPT !.pc = "iOverall"],
           margin + lineHeight * 2)

\* lines 69-73: the wrapped overall analysis, then doc.output('arraybuffer')
IOverall(c, in) ==
    /\ rs[c].pc = "iOverall"
    /\ in >= 1
    /\ Put(c, [Drawn(rs[c], Y(c), in, 12, "overall") EXCEPT !.pc = "returned"], Y(c))

\* handleDownloadPDF lines 154-159: the buffer becomes a Blob, link.click()
DownloadClick(c, in) ==
    /\ rs[c].pc = "returned"
    /\ in = 1
    /\ Put(c, [rs[c] EXCEPT !.pc = "downloaded", !.delivered = TRUE], Y(c))

DownloadCatchHandsOver(c, in) ==
    /\ rs[c].pc = "thrown"
    /\ rs[c].kind = "interview"
    /\ in = 1
    /\ Put(c, [rs[c] EXCEPT !.pc = "toastError", !.toast = TRUE, !.delivered = TRUE], Y(c))

\* handleDownloadPDF lines 160-162: catch { toast(...) }
DownloadCatch(c, in) ==
    /\ rs[c].pc = "thrown"
    /\ rs[c].kind = "interview"
    /\ in = 1
    /\ Put(c, [rs[c] EXCEPT !.pc = "toastError", !.toast = TRUE], Y(c))

\* ------------------------------------------------------------- generatePDF
\* `if (!willContentFit(h)) addNewPage();`: the render state after it
PageAfterCheck(s, y, h) == IF willContentFit(y, h) THEN s ELSE addPage(s)

CursorKeptAfterCheck(y, h) == y

\* addNewPage sets yPos = margin
CursorAfterCheck(y, h) == IF willContentFit(y, h) THEN y ELSE margin

generatePDFStaleCursor(c, in) ==
    /\ rs[c].pc = "idle"
    /\ in \in {0, 1}
    /\ IF in = 0
         THEN Put(c, [rs[c] EXCEPT !.pc = "noop"], Y(c))
         ELSE LET left == cursor[CHOOSE d \in Calls : d # c]
              IN Put(c, [Idle EXCEPT !.kind = "resume", !.pc = "gName", !.pages = 1],
                     IF left = 0 THEN margin ELSE left)

\* lines 407-421: `if (!generatedResume) return;` (token 0), else new jsPDF,
\* yPos = margin (token 1)
generatePDF(c, in) ==
    /\ rs[c].pc = "idle"
    /\ in \in {0, 1}
    /\ IF in = 0
         THEN Put(c, [rs[c] EXCEPT !.pc = "noop"], Y(c))
         ELSE Put(c, [Idle EXCEPT !.kind = "resume", !.pc = "gName", !.pages = 1], margin)

\* lines 441-444: the name, font 24; an undefined name (token 0) is wrapped
\* as the one line String(undefined)
GName(c, in) ==
    /\ rs[c].pc = "gName"
    /\ LET n == IF in = 0 THEN 1 ELSE in
       IN Put(c, [Drawn(rs[c], Y(c), n, 24, "name")
                    EXCEPT !.pc = "gSummary", !.nameMissing = (in = 0)],
              addWrappedText(Y(c), n))

\* lines 446-448: the summary, font 12, at yPos + 10
GSummary(c, in) ==
    /\ rs[c].pc = "gSummary"
    /\ in >= 1
    /\ Put(c, [Drawn(rs[c], Y(c) + 10, in, 12, "summary") EXCEPT !.pc = "gExpTitle"],
           addWrappedText(Y(c) + 10, in))

\* lines 450-453: 'EXPERIENCE', font 14, at yPos + 10, no page check
GExpTitle(c, in) ==
    /\ rs[c].pc = "gExpTitle"
    /\ in = 1
    /\ Put(c, [Drawn(rs[c], Y(c) + 10, 1, 14, "sectionTitle")
                 EXCEPT !.pc = "gExpLoop", !.i = 0],
           addWrappedText(Y(c) + 10, 1))

\* lines 457-465: head of an experience entry: willContentFit(40), then
\* `${exp.position} at ${exp.company}` at yPos + 5; token 0 ends the list
GExpHead(c, in) ==
    /\ rs[c].pc = "gExpLoop"
    /\ IF in = 0
         THEN Put(c, [rs[c] EXCEPT !.pc = "gEduTitle"], Y(c))
         ELSE /\ rs[c].i < MaxEntries
              /\ LET s1 == PageAfterCheck(rs[c], Y(c), 40)
                     y1 == CursorAfterCheck(Y(c), 40)
                 IN Put(c, [Drawn(s1, y1 + 5, in, 12, "entryHead")
                              EXCEPT !.pc = "gExpLoc", !.j = 0],
                        addWrappedText(y1 + 5, in))

\* lines 467-468: `${exp.location} | ${exp.dates}` at yPos
GExpLoc(c, in) ==
    /\ rs[c].pc = "gExpLoc"
    /\ in >= 1
    /\ Put(c, [Drawn(rs[c], Y(c), in, 12, "entryLine") EXCEPT !.pc = "gDescLoop"],
           addWrappedText(Y(c), in))

\* lines 470-476: one bullet: willContentFit(lineHeight * 2), then the bullet
\* at yPos + 5; token 0 ends exp.description and the entry
GDesc(c, in) ==
    /\ rs[c].pc = "gDescLoop"
    /\ IF in = 0
         THEN Put(c, [rs[c] EXCEPT !.pc = "gExpLoop", !.i = @ + 1], Y(c))
         ELSE /\ rs[c].j < MaxDesc
              /\ LET s1 == PageAfterCheck(rs[c], Y(c), lineHeight * 2)
                     y1 == CursorAfterCheck(Y(c), lineHeight * 2)
                 IN Put(c, [Drawn(s1, y1 + 5, in, 12, "bullet") EXCEPT !.j = @ + 1],
                        addWrappedText(y1 + 5, in))

\* lines 478-485: willContentFit(30), then 'EDUCATION', font 14, at yPos + 10
GEduTitle(c, in) ==
    /\ rs[c].pc = "gEduTitle"
    /\ in = 1
    /\ LET s1 == PageAfterCheck(rs[c], Y(c), 30)
           y1 == CursorAfterCheck(Y(c), 30)
       IN Put(c, [Drawn(s1, y1 + 10, 1, 14, "sectionTitle")
                    EXCEPT !.pc = "gEduLoop", !.i = 0],
              addWrappedText(y1 + 10, 1))

\* lines 489-497: head of an education entry: willContentFit(25), then
\* edu.degree at yPos + 5; token 0 ends the list
GEduHead(c, in) ==
    /\ rs[c].pc = "gEduLoop"
    /\ IF in = 0
         THEN Put(c, [rs[c] EXCEPT !.pc = "gSkillsTitle"], Y(c))
         ELSE /\ rs[c].i < MaxEntries
              /\ LET s1 == PageAfterCheck(rs[c], Y(c), 25)
                     y1 == CursorAfterCheck(Y(c), 25)
                 IN Put(c, [Drawn(s1, y1 + 5, in, 12, "entryHead") EXCEPT !.pc = "gEduInst"],
                        addWrappedText(y1 + 5, in))

\* lines 499-500: `${edu.institution} | ${edu.location} | ${edu.dates}`
GEduInst(c, in) ==
    /\ rs[c].pc = "gEduInst"
    /\ in >= 1
    /\ Put(c, [Drawn(rs[c], Y(c), in, 12, "entryLine") EXCEPT !.pc = "gEduGpa"],
           addWrappedText(Y(c), in))

\* lines 502-505: `if (edu.gpa)` (token 0: no gpa), end of the entry
GEduGpa(c, in) ==
    /\ rs[c].pc = "gEduGpa"
    /\ IF in = 0
         THEN Put(c, [rs[c] EXCEPT !.pc = "gEduLoop", !.i = @ + 1], Y(c))
         ELSE Put(c, [Drawn(rs[c], Y(c), in, 12, "entryLine")
                        EXCEPT !.pc = "gEduLoop", !.i = @ + 1],
                  addWrappedText(Y(c), in))

\* lines 507-514: willContentFit(30), then 'SKILLS', font 14, at yPos + 10
GSkillsTitle(c, in) ==
    /\ rs[c].pc = "gSkillsTitle"
    /\ in = 1
    /\ LET s1 == PageAfterCheck(rs[c], Y(c), 30)
           y1 == CursorAfterCheck(Y(c), 30)
       IN Put(c, [Drawn(s1, y1 + 10, 1, 14, "sectionTitle") EXCEPT !.pc = "gTech"],
              addWrappedText(y1 + 10, 1))

\* line 525: `Technical: ${technicalSkills}` at yPos + 5
GTech(c, in) ==
    /\ rs[c].pc = "gTech"
    /\ in >= 1
    /\ Put(c, [Drawn(rs[c], Y(c) + 5, in, 12, "skills") EXCEPT !.pc = "gSoft"],
           addWrappedText(Y(c) + 5, in))

\* line 526: `Soft: ${softSkills}` at yPos + 5
GSoft(c, in) ==
    /\ rs[c].pc = "gSoft"
    /\ in >= 1
    /\ Put(c, [Drawn(rs[c], Y(c) + 5, in, 12, "skills") EXCEPT !.pc = "gProjTitle"],
           addWrappedText(Y(c) + 5, in))

\* lines 528-535: willContentFit(30), then 'PROJECTS', font 14, at yPos + 10
GProjTitle(c, in) ==
    /\ rs[c].pc = "gProjTitle"
    /\ in = 1
    /\ LET s1 == PageAfterCheck(rs[c], Y(c), 30)
           y1 == CursorAfterCheck(Y(c), 30)
       IN Put(c, [Drawn(s1, y1 + 10, 1, 14, "sectionTitle")
                    EXCEPT !.pc = "gProjLoop", !.i = 0],
              addWrappedText(y1 + 10, 1))

\* lines 539-547: head of a project entry: willContentFit(40), then proj.name
\* at yPos + 5; token 0 ends the list
GProjHead(c, in) ==
    /\ rs[c].pc = "gProjLoop"
    /\ IF in = 0
         THEN Put(c, [rs[c] EXCEPT !.pc = "gSave"], Y(c))
         ELSE /\ rs[c].i < MaxEntries
              /\ LET s1 == PageAfterCheck(rs[c], Y(c), 40)
                     y1 == CursorAfterCheck(Y(c), 40)
                 IN Put(c, [Drawn(s1, y1 + 5, in, 12, "entryHead") EXCEPT !.pc = "gProjDesc"],
                        addWrappedText(y1 + 5, in))

\* lines 549-551: proj.description at yPos, end of the entry
GProjDesc(c, in) ==
    /\ rs[c].pc = "gProjDesc"
    /\ in >= 1
    /\ Put(c, [Drawn(rs[c], Y(c), in, 12, "entryLine")
                 EXCEPT !.pc = "gProjLoop", !.i = @ + 1],
           addWrappedText(Y(c), in))

\* lines 553-554: doc.save(`${generatedResume.name.toLowerCase()...}`): the
\* argument is evaluated first and throws a TypeError on an undefined name
GSave(c, in) ==
    /\ rs[c].pc = "gSave"
    /\ in = 1
    /\ IF rs[c].nameMissing
         THEN Put(c, [rs[c] EXCEPT !.pc = "thrown"], Y(c))
         ELSE Put(c, [rs[c] EXCEPT !.pc = "saved", !.delivered = TRUE], Y(c))

\* ------------------------------------------------------ InterviewCoach page
\* coach is the state of the mounted page (useState, lines 36-44), the build
\* it runs in (env: process.env.NODE_ENV, lovable: isLovablePreview) and the
\* toast raised by the last handler step; net is the request in flight.
\* A File, a job description and a session id are abstracted to present or
\* absent (0 = null), a message to its role.
NodeEnvs == {"production", "development"}

SessionIds == 1..MaxSessions

\* the texts of an input: empty, blanks only, some text
Answers == {"", " ", "a"}

\* userAnswer.trim()
trim(text) == IF text = " " THEN "" ELSE text

\* the value read from a property the object does not have
undefined == [origin |-> "none", path |-> "undefined"]

\* config.ts lines 4-8
API_BASE_URL(b) ==
    IF b.lovable THEN "http://localhost:8000"
    ELSE IF b.env = "production" THEN "https://ready-resume-ai.onrender.com"
    ELSE "http://localhost:8000"

\* `process.env.NODE_ENV === 'production' ? 'https://ready-resume-ai.onrender.com<path>'
\*                                        : 'http://localhost:8000<path>'`
EnvUrl(b, path) ==
    [origin |-> IF b.env = "production" THEN "https://ready-resume-ai.onrender.com"
                ELSE "http://localhost:8000",
     path |-> path]

\* config.ts lines 11-29: the table of the build b
API_ENDPOINTS(b) ==
    [GENERATE_RESUME |-> EnvUrl(b, "/generate-resume"),
     ANALYZE_RESUME |-> EnvUrl(b, "/analyze-resume"),
     GENERATE_PORTFOLIO |-> [origin |-> API_BASE_URL(b), path |-> "/api/generate-portfolio"],
     GENERATE_COVER_LETTER |-> [origin |-> API_BASE_URL(b), path |-> "/api/generate-cover-letter"],
     ANALYZE_CAREER |-> [origin |-> API_BASE_URL(b), path |-> "/analyze-career"],
     INTERVIEW_COACH |->
         [START |-> EnvUrl(b, "/api/interview-coach/start"),
          SUBMIT_ANSWER |-> EnvUrl(b, "/api/interview-coach/submit-answer")]]

\* the property access object.key
Member(object, key) == IF key \in DOMAIN object THEN object[key] ELSE undefined

Mounted ==
    [lovable |-> FALSE, env |-> "development",
     resumeFile |-> FALSE, jobDescription |-> FALSE, isStarting |-> FALSE,
     isInterviewActive |-> FALSE, messages |-> <<>>, userAnswer |-> "",
     isProcessing |-> FALSE, interviewAnalysis |-> 0, sessionId |-> 0,
     toast |-> "none"]

NoRequest == [kind |-> "none", url |-> undefined, session |-> 0]

\* lines 47-51: setSessionId(id) followed by the effect cleanup of the render
\* that held the old id: `if (sessionId) setSessionId(null)`
SessionAfterEffect(old, id) == IF old # 0 /\ id # old THEN 0 ELSE id

\* lines 57-61: a file is chosen in the file input, or the dialog is cancelled
handleFileChange(chosen) ==
    /\ coach' = [coach EXCEPT !.resumeFile = IF chosen THEN TRUE ELSE @,
                              !.toast = "none"]
    /\ UNCHANGED net

\* line 194: onChange of the job description
setJobDescription(filled) ==
    /\ coach' = [coach EXCEPT !.jobDescription = filled, !.toast = "none"]
    /\ UNCHANGED net

\* line 220: onChange of the answer box, which is shown while the interview
\* is active
setUserAnswer(text) ==
    /\ coach.isInterviewActive
    /\ coach' = [coach EXCEPT !.userAnswer = text, !.toast = "none"]
    /\ UNCHANGED net

\* lines 63-82: the click on 'Start Mock Interview' (disabled while isStarting
\* or isInterviewActive) up to the await of fetch
startInterview ==
    /\ ~coach.isStarting /\ ~coach.isInterviewActive
    /\ IF ~coach.resumeFile \/ ~coach.jobDescription
         THEN /\ coach' = [coach EXCEPT !.toast = "Missing Input"]
              /\ UNCHANGED net
         ELSE /\ coach' = [coach EXCEPT !.isStarting = TRUE, !.toast = "none"]
              /\ net' = [kind |-> "start",
                         url |-> Member(API_ENDPOINTS(coach), "INTERVIEW_COACH_START"),
                         session |-> 0]

\* the ways the start request settles: fetch rejects, the response is not ok,
\* its body is no JSON, session_id or question is missing, or both are there
StartReplies == {"rejected", "notOk", "notJson", "invalid", "started"}

\* lines 84-107: the rest of startInterview once the request has settled
startInterviewSettled(reply, id) ==
    /\ net.kind = "start"
    /\ IF reply = "started"
         THEN coach' = [coach EXCEPT !.sessionId = SessionAfterEffect(@, id),
                                     !.messages = <<"assistant">>,
                                     !.isInterviewActive = TRUE,
                                     !.toast = "Interview Started",
                                     !.isStarting = FALSE]
         ELSE coach' = [coach EXCEPT !.toast = "Error", !.isStarting = FALSE]
    /\ net' = NoRequest

\* lines 110-126: the submit of the answer form (its button is disabled while
\* isProcessing or the answer is blank) up to the await of fetch
handleSubmitAnswer ==
    /\ coach.isInterviewActive
    /\ ~coach.isProcessing /\ trim(coach.userAnswer) # ""
    /\ Len(coach.messages) < MaxMessages
    /\ IF trim(coach.userAnswer) = "" \/ coach.sessionId = 0
         THEN /\ coach' = [coach EXCEPT !.toast = "none"]
              /\ UNCHANGED net
         ELSE /\ coach' = [coach EXCEPT !.isProcessing = TRUE,
                                        !.messages = Append(@, "user"),
                                        !.userAnswer = "",
                                        !.toast = "none"]
              /\ net' = [kind |-> "submit",
                         url |-> Member(API_ENDPOINTS(coach), "INTERVIEW_COACH_SUBMIT"),
                         session |-> coach.sessionId]

\* the ways the submit request settles: fetch rejects, the body is no JSON,
\* data.status is "success" with or without isComplete, or any other JSON
SubmitReplies == {"rejected", "notJson", "complete", "nextQuestion", "otherStatus"}

\* the reply is appended to the messages of the render in which the answer
\* was submitted, `setMessages([...messages, reply])`
handleSubmitAnswerSettledSnapshot(reply) ==
    /\ net.kind = "submit"
    /\ coach' =
         IF reply \in {"complete", "nextQuestion"}
           THEN [coach EXCEPT !.messages =
                                  Append(SubSeq(@, 1, Len(@) - 1), "assistant"),
                              !.interviewAnalysis =
                                  IF reply = "complete" THEN net.session ELSE @,
                              !.isInterviewActive = (reply # "complete"),
                              !.toast = "none", !.isProcessing = FALSE]
           ELSE [coach EXCEPT !.toast = IF reply = "otherStatus" THEN "none" ELSE "Error",
                              !.isProcessing = FALSE]
    /\ net' = NoRequest

\* lines 127-147: the rest of handleSubmitAnswer once the request has settled
handleSubmitAnswerSettled(reply) ==
    /\ net.kind = "submit"
    /\ coach' =
         CASE reply = "complete" ->
                [coach EXCEPT !.interviewAnalysis = net.session,
                              !.isInterviewActive = FALSE,
                              !.messages = Append(@, "assistant"),
                              !.toast = "none", !.isProcessing = FALSE]
           [] reply = "nextQuestion" ->
                [coach EXCEPT !.messages = Append(@, "assistant"),
                              !.toast = "none", !.isProcessing = FALSE]
           [] reply = "otherStatus" ->
                [coach EXCEPT !.toast = "none", !.isProcessing = FALSE]
           [] OTHER ->
                [coach EXCEPT !.toast = "Error", !.isProcessing = FALSE]
    /\ net' = NoRequest

\* ----------------------------------------------------- ResumeGenerator page
\* form is the state of the mounted page (useState, lines 116-151): resumeData
\* is abstracted to the set of required fields that hold the empty string and
\* the text of technical_skills, the one field validateForm trims; the
\* generated resume to present or absent, a text to one of Answers. The
\* LinkedIn URL box (line 597) is not part of the state: its button can be
\* clicked whenever a URL has been typed. toast is the
\* toast raised and scrollArg the argument of scrollToError in the last
\* handler step. The page keeps the one experience and the one education
\* entry it is constructed with (lines 132-147).
Routes == {"interview-coach", "resume-generator"}

\* the index of the card of the initial entry
FirstCard == 0

\* `index?: number` left undefined: the error belongs to no card (lines 81-85)
NoIndex == 0 - 1

\* the fields validateForm requires, in the order it checks them
PersonalRequired == <<"full_name", "email", "phone", "location", "summary">>

ExperienceRequired ==
    <<"job_title", "company", "start_date", "end_date", "location", "description">>

EducationRequired == <<"degree", "institution", "graduation_date", "location">>

Range(seq) == {seq[k] : k \in DOMAIN seq}

\* a field of resumeData: its section, its name and the index of its card
Field(section, field, index) ==
    [section |-> section, field |-> field, index |-> index]

\* lines 160-219: the checks of validateForm in the order of the code
RequiredFields ==
    [k \in DOMAIN PersonalRequired |->
        Field("personal_info", PersonalRequired[k], NoIndex)]
    \o [k \in DOMAIN ExperienceRequired |->
        Field("experience", ExperienceRequired[k], FirstCard)]
    \o [k \in DOMAIN EducationRequired |->
        Field("education", EducationRequired[k], FirstCard)]
    \o <<Field("technical_skills", "technical_skills", NoIndex)>>

SkillsField == RequiredFields[Len(RequiredFields)]

\* the ValidationError pushed for a field (lines 81-85): the code stores field
\* and index; the message is a function of the field and left out, and
\* pushedFor records the section whose check pushed the error, which no
\* handler reads
ValidationError(f) ==
    [field |-> f.field, index |-> f.index, pushedFor |-> f.section]

NoError == [field |-> "none", index |-> NoIndex, pushedFor |-> "none"]

\* the check of validateForm on the field f: `!value`, and `!value.trim()`
\* for technical_skills (line 216)
Fails(data, f) ==
    IF f = SkillsField THEN trim(data.technical_skills) = "" ELSE f \in data.empty

\* the user has filled in the form but for at most MaxEmpty required fields
WithinBound(data) ==
    Cardinality({f \in data.empty \cup {SkillsField} : Fails(data, f)}) <= MaxEmpty

Forms ==
    {data \in [empty : SUBSET (Range(RequiredFields) \ {SkillsField}),
               technical_skills : Answers] : WithinBound(data)}

\* lines 157-222: the errors validateForm collects and hands to
\* setValidationErrors; it returns TRUE iff there are none
validateForm(data) ==
    LET found == SelectSeq(RequiredFields, LAMBDA f : Fails(data, f))
    IN  [k \in DOMAIN found |-> ValidationError(found[k])]

\* `field.startsWith('job_')`
startsWithJob(field) == field = "job_title"

NoScroll == [card |-> "none", index |-> NoIndex]

\* lines 224-236: the element scrollToError scrolls into view
scrollToError(error) ==
    IF error = NoError THEN NoScroll
    ELSE IF error.index # NoIndex
      THEN IF \/ startsWithJob(error.field)
              \/ error.field \in {"company", "start_date", "end_date",
                                  "location", "description"}
             THEN [card |-> "experience", index |-> error.index]
           ELSE IF error.field \in {"degree", "institution",
                                    "graduation_date", "location"}
             THEN [card |-> "education", index |-> error.index]
           ELSE NoScroll
    ELSE IF error.field = "technical_skills"
      THEN [card |-> "technical_skills", index |-> NoIndex]
    ELSE NoScroll

FormMounted ==
    [resumeData |-> [empty |-> Range(RequiredFields) \ {SkillsField},
                     technical_skills |-> ""],
     validationErrors |-> <<>>,
     isGenerating |-> FALSE, generatedResume |-> FALSE,
     toast |-> "none", scrollArg |-> NoError]

\* the texts typed into a field: blanks only where validateForm trims
Typed(field) == IF field = "technical_skills" THEN Answers ELSE Answers \ {" "}

\* resumeData after the field f is set to value
Edited(f, value) ==
    IF f = SkillsField
      THEN [form.resumeData EXCEPT !.technical_skills = value]
      ELSE [form.resumeData EXCEPT
              !.empty = IF value = "" THEN @ \cup {f} ELSE @ \ {f}]

\* lines 625-725 and 856: onChange of a personal field or of the technical
\* skills, `setResumeData` only
setResumeData(f, value) ==
    /\ f.section \in {"personal_info", "technical_skills"}
    /\ WithinBound(Edited(f, value))
    /\ form' = [form EXCEPT !.resumeData = Edited(f, value),
                            !.toast = "none", !.scrollArg = NoError]
    /\ UNCHANGED net

\* the filter of lines 371-374 and 386-389
WithoutError(errors, index, field) ==
    SelectSeq(errors, LAMBDA error : ~(error.index = index /\ error.field = field))

\* lines 362-375
handleExperienceChange(index, field, value) ==
    /\ WithinBound(Edited(Field("experience", field, index), value))
    /\ form' = [form EXCEPT
                  !.resumeData = Edited(Field("experience", field, index), value),
                  !.validationErrors = WithoutError(@, index, field),
                  !.toast = "none", !.scrollArg = NoError]
    /\ UNCHANGED net

\* lines 377-390
handleEducationChange(index, field, value) ==
    /\ WithinBound(Edited(Field("education", field, index), value))
    /\ form' = [form EXCEPT
                  !.resumeData = Edited(Field("education", field, index), value),
                  !.validationErrors = WithoutError(@, index, field),
                  !.toast = "none", !.scrollArg = NoError]
    /\ UNCHANGED net

\* lines 1268-1275: the request handleGenerate sends
GenerateRequest ==
    [kind |-> "generate", url |-> Member(API_ENDPOINTS(coach), "GENERATE_RESUME"),
     session |-> 0]

\* the methods of the two buttons
Methods == {"linkedin", "guided"}

\* handleGenerate without the validation
handleGenerateUnvalidated(method) ==
    /\ ~form.isGenerating
    /\ IF method = "linkedin"
         THEN /\ form' = [form EXCEPT !.toast = "LinkedIn import coming soon!",
                                      !.scrollArg = NoError]
              /\ UNCHANGED net
         ELSE /\ form' = [form EXCEPT !.validationErrors = validateForm(form.resumeData),
                                      !.isGenerating = TRUE,
                                      !.toast = "none", !.scrollArg = NoError]
              /\ net' = GenerateRequest

\* lines 238-262 (and 1250-1275): the click on 'Import from LinkedIn'
\* (disabled while the URL box is empty or isGenerating) or on 'Generate Resume'
\* (disabled while isGenerating), up to the await of fetch. validationErrors
\* in the handler is the state of the render the click happened in
handleGenerate(method) ==
    /\ ~form.isGenerating
    /\ IF method = "linkedin"
         THEN /\ form' = [form EXCEPT !.toast = "LinkedIn import coming soon!",
                                      !.scrollArg = NoError]
              /\ UNCHANGED net
       ELSE IF validateForm(form.resumeData) # <<>>
         THEN /\ form' = [form EXCEPT
                            !.validationErrors = validateForm(form.resumeData),
                            !.toast = "Please fill in all required fields",
                            !.scrollArg = IF Len(form.validationErrors) > 0
                                            THEN form.validationErrors[1]
                                            ELSE NoError]
              /\ UNCHANGED net
         ELSE /\ form' = [form EXCEPT !.validationErrors = <<>>,
                                      !.isGenerating = TRUE,
                                      !.toast = "none", !.scrollArg = NoError]
              /\ net' = GenerateRequest

\* the ways the generate request settles: fetch rejects, the response is not
\* ok, it is a PDF, its body is no JSON, data.status is "success", or any
\* other JSON
GenerateReplies == {"rejected", "notOk", "pdf", "notJson", "success", "otherStatus"}

\* the settle step whose error path leaves the flag set
handleGenerateSettledNoFinally(reply) ==
    /\ net.kind = "generate"
    /\ form' =
         CASE reply = "pdf" ->
                [form EXCEPT !.toast = "success", !.scrollArg = NoError,
                             !.isGenerating = FALSE]
           [] reply = "success" ->
                [form EXCEPT !.generatedResume = TRUE,
                             !.toast = "success", !.scrollArg = NoError,
                             !.isGenerating = FALSE]
           [] OTHER ->
                [form EXCEPT !.toast = "error", !.scrollArg = NoError]
    /\ net' = NoRequest

\* lines 1277-1328: the rest of handleGenerate once the request has settled
handleGenerateSettled(reply) ==
    /\ net.kind = "generate"
    /\ form' =
         CASE reply = "pdf" ->
                [form EXCEPT !.toast = "success", !.scrollArg = NoError,
                             !.isGenerating = FALSE]
           [] reply = "success" ->
                [form EXCEPT !.generatedResume = TRUE,
                             !.toast = "success", !.scrollArg = NoError,
                             !.isGenerating = FALSE]
           [] OTHER ->
                [form EXCEPT !.toast = "error", !.scrollArg = NoError,
                             !.isGenerating = FALSE]
    /\ net' = NoRequest

\* ------------------------------------------------------------ specifications
\* the positions at which a call reads a field of its input
ReadsInput(s) ==
    s.pc \in {"idle", "iLoop", "iQuestion", "iAnswer", "iFeedback", "iOverall",
              "gName", "gSummary", "gExpLoop", "gExpLoc", "gDescLoop", "gEduLoop",
              "gEduInst", "gEduGpa", "gTech", "gSoft", "gProjLoop", "gProjDesc"}

RenderStep(c, in) ==
    \/ handleDownloadPDF(c, in)
    \/ ITitle(c, in)
    \/ IQaTitle(c, in)
    \/ IQuestionLabel(c, in)
    \/ IQuestion(c, in)
    \/ IAnswerLabel(c, in)
    \/ IAnswer(c, in)
    \/ IFeedbackLabel(c, in)
    \/ IFeedback(c, in)
    \/ IOverallTitle(c, in)
    \/ IOverall(c, in)
    \/ DownloadClick(c, in)
    \/ DownloadCatch(c, in)
    \/ generatePDF(c, in)
    \/ GName(c, in)
    \/ GSummary(c, in)
    \/ GExpTitle(c, in)
    \/ GExpHead(c, in)
    \/ GExpLoc(c, in)
    \/ GDesc(c, in)
    \/ GEduTitle(c, in)
    \/ GEduHead(c, in)
    \/ GEduInst(c, in)
    \/ GEduGpa(c, in)
    \/ GSkillsTitle(c, in)
    \/ GTech(c, in)
    \/ GSoft(c, in)
    \/ GProjTitle(c, in)
    \/ GProjHead(c, in)
    \/ GProjDesc(c, in)
    \/ GSave(c, in)

NoOut == [draws |-> <<>>, read |-> 0]

Init ==
    /\ rs = [c \in Calls |-> Idle]
    /\ cursor = [c \in Calls |-> 0]
    /\ tape = <<>>
    /\ outs = [c \in Calls |-> NoOut]
    /\ coach = Mounted
    /\ net = NoRequest
    /\ form = FormMounted
    /\ route = "interview-coach"

\* one render call, any document within the bounds
Next ==
    \E in \in Tokens :
        /\ RenderStep(1, in)
        /\ UNCHANGED <<tape, outs, coach, net, form, route>>

Spec == Init /\ [][Next]_vars

\* the draws of call c so far, and the number of input fields it has read
Recorded(c, in) ==
    outs' = [outs EXCEPT ![c] =
               [draws |-> IF rs'[c].last # rs[c].last
                            THEN Append(@.draws, rs'[c].last) ELSE @.draws,
                read |-> IF ReadsInput(rs[c]) THEN @.read + 1 ELSE @.read]]

\* call c reads the next field of the document: the field the other call has
\* read at that place, or a new field at the end of the tape
ReadsTape(c, in) ==
    IF ~ReadsInput(rs[c])
      THEN tape' = tape
      ELSE IF outs[c].read < Len(tape)
             THEN in = tape[outs[c].read + 1] /\ tape' = tape
             ELSE Len(tape) < MaxTape /\ tape' = Append(tape, in)

\* two render calls of the same document, their statements interleaved in
\* any order (in particular one call after the other)
PairNext ==
    \E c \in Calls : \E in \in PairTokens :
        /\ ReadsTape(c, in)
        /\ RenderStep(c, in)
        /\ Recorded(c, in)
        /\ UNCHANGED <<coach, net, form, route>>

PairSpec == Init /\ [][PairNext]_vars

\* one render call of a document of short blocks and of blocks taller than a
\* page; the call is always run on: generatePDF is synchronous and
\* generateInterviewPDF has no await, so a started call runs every statement
FairNext ==
    \E in \in TallTokens :
        /\ RenderStep(1, in)
        /\ UNCHANGED <<tape, outs, coach, net, form, route>>

FairSpec == Init /\ [][FairNext]_vars /\ WF_vars(FairNext)

\* the InterviewCoach page in any build, with a user who fills the inputs and
\* clicks in any order and a server that answers each request in any way
CoachInit ==
    /\ rs = [c \in Calls |-> Idle]
    /\ cursor = [c \in Calls |-> 0]
    /\ tape = <<>>
    /\ outs = [c \in Calls |-> NoOut]
    /\ \E lovable \in BOOLEAN : \E env \in NodeEnvs :
           coach = [Mounted EXCEPT !.lovable = lovable, !.env = env]
    /\ net = NoRequest
    /\ form = FormMounted
    /\ route = "interview-coach"

CoachStep ==
    \/ \E chosen \in BOOLEAN : handleFileChange(chosen)
    \/ \E filled \in BOOLEAN : setJobDescription(filled)
    \/ \E text \in Answers : setUserAnswer(text)
    \/ startInterview
    \/ \E reply \in StartReplies : \E id \in SessionIds : startInterviewSettled(reply, id)
    \/ handleSubmitAnswer
    \/ \E reply \in SubmitReplies : handleSubmitAnswerSettled(reply)

CoachNext ==
    /\ CoachStep
    /\ UNCHANGED <<rs, cursor, tape, outs, form, route>>

CoachSpec == CoachInit /\ [][CoachNext]_vars

FormStep ==
    \/ \E f \in Range(RequiredFields) : \E value \in Typed(f.field) : setResumeData(f, value)
    \/ \E field \in Range(ExperienceRequired) : \E value \in Typed(field) :
           handleExperienceChange(FirstCard, field, value)
    \/ \E field \in Range(EducationRequired) : \E value \in Typed(field) :
           handleEducationChange(FirstCard, field, value)
    \/ \E method \in Methods : handleGenerate(method)
    \/ \E reply \in GenerateReplies : handleGenerateSettled(reply)

\* the app on one of the two pages: the InterviewCoach page, or the
\* ResumeGenerator page once the user has filled in all but a few of the
\* required fields; the user types and clicks in any order and the server
\* answers each request in any way
AppInit ==
    /\ rs = [c \in Calls |-> Idle]
    /\ cursor = [c \in Calls |-> 0]
    /\ tape = <<>>
    /\ outs = [c \in Calls |-> NoOut]
    /\ coach = Mounted
    /\ net = NoRequest
    /\ route \in Routes
    /\ IF route = "resume-generator"
         THEN \E data \in Forms : form = [FormMounted EXCEPT !.resumeData = data]
         ELSE form = FormMounted

AppNext ==
    \/ /\ route = "interview-coach"
       /\ CoachStep
       /\ UNCHANGED <<rs, cursor, tape, outs, form, route>>
    \/ /\ route = "resume-generator"
       /\ FormStep
       /\ UNCHANGED <<rs, cursor, tape, outs, coach, route>>

AppSpec == AppInit /\ [][AppNext]_vars

\* ------------------------------------------------------------------ claims
Drew(d) == d.role # "none"

\* the block of draw d lies wholly above the bottom margin
AboveBottom(d) == LastLineY(d) <= Limit

\* draw a comes before draw b in page order, then top to bottom
Before(a, b) ==
    \/ a.page < b.page
    \/ a.page = b.page /\ LastLineY(a) < FirstLineY(b)

\* C1: every drawn line has margin <= y <= pageHeight - margin
C1_NoClipping ==
    \A c \in Calls :
        Drew(rs[c].last) =>
            /\ margin * UnitsPerMm <= FirstLineY(rs[c].last)
            /\ AboveBottom(rs[c].last)

\* C2: a section title of generatePDF and the first body block after it are
\* drawn on the same page
C2_TitleWithBody ==
    \A c \in Calls :
        (rs[c].prev.role = "sectionTitle" /\ rs[c].last.role \notin {"sectionTitle", "none"})
            => rs[c].prev.page = rs[c].last.page

\* C3: every block is drawn after (later page, or lower on the page than) the
\* whole block that precedes it in the input
C3_ReadingOrder ==
    \A c \in Calls :
        (Drew(rs[c].prev) /\ Drew(rs[c].last)) => Before(rs[c].prev, rs[c].last)

\* C6: a block of exactly 3 lines that starts where exactly 2 of its lines
\* fit above the bottom margin has no line below pageHeight - margin
C6_BoundarySplit ==
    \A c \in Calls :
        (rs[c].last.n = 3 /\ TextLineY(rs[c].last, 2) <= Limit)
            => TextLineY(rs[c].last, 3) <= Limit

\* the block of draw d fits whole on a fresh page
FitsFreshPage(d) == margin * UnitsPerMm + (d.n - 1) * d.fs * LeadingPerPt <= Limit

\* C7: a block that fits whole on a fresh page, drawn after other blocks have
\* filled the page, is not drawn across the bottom margin
C7_BreakAtBlockBoundary ==
    \A c \in Calls :
        (Drew(rs[c].prev) /\ Drew(rs[c].last) /\ FitsFreshPage(rs[c].last)
            /\ AboveBottom(rs[c].prev))
            => AboveBottom(rs[c].last)

\* the call has ended: returned early, handed the file over, or failed
Finished(s) ==
    \/ s.pc \in {"noop", "saved", "downloaded", "toastError"}
    \/ s.pc = "thrown" /\ s.kind = "resume"

EmptyQuestionAnalysis(c) ==
    /\ rs[c].kind = "interview"
    /\ outs[c].read >= 2
    /\ tape[2] = 0

Roles(ds) == [k \in 1..Len(ds) |-> ds[k].role]
Pages(ds) == [k \in 1..Len(ds) |-> ds[k].page]

\* C5 as stated: the render of an empty questionAnalysis list returns one
\* page with nothing drawn on it
C5_EmptyOnePage ==
    \A c \in Calls :
        (EmptyQuestionAnalysis(c) /\ rs[c].pc \in {"returned", "downloaded"})
            => rs[c].pages = 1 /\ outs[c].draws = <<>>

\* C5 amended: the render of an empty questionAnalysis list does not fail and
\* returns exactly two pages: the two report headings on page 1, the
\* 'Overall Analysis' heading and text on page 2
C5_EmptyReport ==
    \A c \in Calls :
        EmptyQuestionAnalysis(c) =>
            /\ rs[c].pc \in {"iOverallTitle", "iOverall", "returned", "downloaded"}
            /\ rs[c].pc \in {"returned", "downloaded"} =>
                 /\ rs[c].pages = 2
                 /\ Roles(outs[c].draws) = <<"reportTitle", "heading", "overallTitle", "overall">>
                 /\ Pages(outs[c].draws) = <<1, 1, 2, 2>>

C5_Witness ==
    /\ EmptyQuestionAnalysis(1)
    /\ rs[1].pc = "downloaded"
    /\ rs[1].last.n = MaxLines

\* a page is added to the document of call c by this step
BreaksPage(c) == rs[c].pages > 0 /\ rs'[c].pages > rs[c].pages

\* the positions whose step makes an overflow check
CheckSite(s) ==
    s.pc \in {"iLoop", "gExpLoop", "gDescLoop", "gEduTitle", "gEduLoop",
              "gSkillsTitle", "gProjTitle", "gProjLoop"}

\* C8 as stated: every page break is made by an overflow check, one page per
\* check
C8_BreaksWithinChecks ==
    [][\A c \in Calls :
          BreaksPage(c) => rs'[c].pages = rs[c].pages + 1 /\ CheckSite(rs[c])]_vars

\* C8 amended: the call ends, and every page break is made by an overflow
\* check, one page per check, or is the one doc.addPage() before 'Overall
\* Analysis'
C8_Termination ==
    /\ [][\A c \in Calls :
            BreaksPage(c) =>
                /\ rs'[c].pages = rs[c].pages + 1
                /\ CheckSite(rs[c]) \/ rs[c].pc = "iOverallTitle"]_vars
    /\ <>Finished(rs[1])

C8_Witness ==
    /\ rs[1].pc = "saved"
    /\ rs[1].pages >= 3
    /\ rs[1].last.n = TallLines
    /\ ~FitsFreshPage(rs[1].last)

\* the whole document of the call has been drawn
Complete(s) ==
    \/ s.kind = "resume" /\ s.pc = "saved" /\ s.last.role \in {"sectionTitle", "entryLine"}
    \/ s.kind = "interview" /\ s.pc = "downloaded" /\ s.last.role = "overall"
          /\ s.last.page = s.pages

\* C9: a file is handed over only by a render that drew the whole document; a
\* render that threw hands over nothing, and handleDownloadPDF then only
\* shows the error toast
C9_AllOrNothing ==
    \A c \in Calls :
        /\ rs[c].delivered => Complete(rs[c])
        /\ rs[c].pc \in {"thrown", "toastError"} => ~rs[c].delivered
        /\ rs[c].toast => rs[c].kind = "interview" /\ rs[c].pc = "toastError"

C9_Witness ==
    /\ rs[1].pc = "toastError"
    /\ rs[1].i >= 1
    /\ rs[1].toast /\ ~rs[1].delivered

Min(a, b) == IF a <= b THEN a ELSE b

\* C10: however the statements of two render calls of one document are
\* interleaved, each call draws the same pages and positions: at every moment
\* the draws of one call are a prefix of the draws of the other
C10_InterleavingInvisible ==
    rs[1].kind = rs[2].kind =>
        \A k \in 1..Min(Len(outs[1].draws), Len(outs[2].draws)) :
            outs[1].draws[k] = outs[2].draws[k]

C10_Witness ==
    /\ rs[1].kind = "resume" /\ rs[2].kind = "resume"
    /\ ~Finished(rs[1]) /\ ~Finished(rs[2])
    /\ Len(outs[1].draws) >= 2
    /\ Len(outs[2].draws) > Len(outs[1].draws)
    /\ Y(1) # Y(2)

\* C12: a missing or undefined text field of the input never makes a render
\* raise: no call ends in a thrown error
C12_MissingFieldNeverRaises ==
    \A c \in Calls : rs[c].pc \notin {"thrown", "toastError"}

\* the request of an accepted answer settles in this step
SubmitSettles == net.kind = "submit" /\ net'.kind = "none"

\* the reply appends the next question to the transcript of the running
\* interview
NextQuestionShown ==
    /\ coach'.isInterviewActive
    /\ coach'.messages = Append(coach.messages, "assistant")

\* the reply sets the final analysis and marks the interview complete
AnalysisShown ==
    /\ coach.isInterviewActive /\ ~coach'.isInterviewActive
    /\ coach'.interviewAnalysis # 0

ErrorToastShown == coach'.toast = "Error"

Count(shown) == IF shown THEN 1 ELSE 0

\* C14: when the request of an accepted answer settles, exactly one outcome
\* becomes visible: the next question, the final analysis with the interview
\* marked complete, or an error toast
C14_AnswerRoundTrip ==
    [][SubmitSettles =>
         Count(NextQuestionShown) + Count(AnalysisShown) + Count(ErrorToastShown) = 1]_vars

\* C15: the start request goes to the START url and the submit request to the
\* SUBMIT_ANSWER url of the API_ENDPOINTS table
C15_EndpointsDefined ==
    /\ net.kind = "start" => net.url = API_ENDPOINTS(coach).INTERVIEW_COACH.START
    /\ net.kind = "submit" => net.url = API_ENDPOINTS(coach).INTERVIEW_COACH.SUBMIT_ANSWER

\* C16: the overflow check is made before each wrapped line of a block: a
\* line that follows a line drawn above the bottom margin is itself drawn
\* above the bottom margin of its page (or on a new page), never below it
C16_PerLineCheck ==
    \A c \in Calls : \A k \in 2..rs[c].last.n :
        TextLineY(rs[c].last, k - 1) <= Limit => TextLineY(rs[c].last, k) <= Limit

\* a render call starts in this step
StartsRender(c) == rs[c].pages = 0 /\ rs'[c].pages # 0

\* what the statement at position pc adds to the cursor in its draw call
\* (`yPos + 5`, `yPos + 10`, plain `y`)
DrawOffset(pc) ==
    CASE pc \in {"gExpLoop", "gDescLoop", "gEduLoop", "gProjLoop"} -> 5
      [] pc \in {"gEduTitle", "gSkillsTitle", "gProjTitle"} -> 10
      [] OTHER -> 0

\* C17: a render starts with one page and the cursor at the top margin; the
\* first draw after a page break is made on the new page with the cursor at
\* the top margin; in a step without a page break the cursor does not decrease
C17_CursorReset ==
    [][\A c \in Calls :
          /\ StartsRender(c) => rs'[c].pages = 1 /\ Y(c)' = margin
          /\ BreaksPage(c) =>
                /\ rs'[c].last.page = rs'[c].pages
                /\ rs'[c].last.y = margin + DrawOffset(rs[c].pc)
                /\ Y(c)' > margin
          /\ (rs[c].pages > 0 /\ rs'[c].pages = rs[c].pages) => Y(c)' >= Y(c)]_vars

C17_Witness ==
    /\ rs[1].kind = "resume"
    /\ rs[1].pages = 2
    /\ rs[1].prev.page = 1 /\ rs[1].prev.y > 200
    /\ rs[1].last.page = 2 /\ rs[1].last.y = margin + 5
    /\ rs[1].last.n = MaxLines

\* call c draws a block in this step
Draws(c) == rs'[c].last # rs[c].last /\ Drew(rs'[c].last)

\* the roles of the blocks whose text comes from the input; the overall
\* analysis is the last statement of its render, no cursor advance follows it
InputRoles ==
    {"name", "summary", "entryHead", "entryLine", "bullet", "skills",
     "question", "answer", "feedback"}

\* the roles whose draw statement passes the text through
\* doc.splitTextToSize(text, pageWidth - 2 * margin)
SplitRoles ==
    {"name", "summary", "sectionTitle", "entryHead", "entryLine", "bullet", "skills",
     "answer", "feedback", "overall"}

\* C18: every text block of the input is wrapped before it is drawn, and the
\* cursor then stands one line height per drawn line below the block's first
\* line
C18_EveryBlockWrapped ==
    [][\A c \in Calls :
          (Draws(c) /\ rs'[c].last.role \in InputRoles) =>
              /\ rs'[c].last.role \in SplitRoles
              /\ Y(c)' = rs'[c].last.y + rs'[c].last.n * lineHeight]_vars

\* C19: a block that follows another block is drawn half a line height below
\* the cursor the finished block left, and where the cursor with that gap
\* lies below the bottom margin the block goes to a new page
C19_InterBlockGap ==
    [][\A c \in Calls :
          (Drew(rs[c].last) /\ Draws(c)) =>
              IF BreaksPage(c)
                THEN rs'[c].last.page = rs'[c].pages
                ELSE /\ 2 * (rs'[c].last.y - Y(c)) = lineHeight
                     /\ ~NeedsNewPage(rs'[c].last.y)]_vars

\* C20: at every overflow check generatePDF makes, with its cursor and its
\* content height, the rule of generateInterviewPDF decides the same: a page
\* is added exactly if y > pageHeight - margin
C20_SameOverflowRule ==
    [][\A c \in Calls :
          (rs[c].kind = "resume" /\ CheckSite(rs[c]) /\ Draws(c)) =>
              (BreaksPage(c) <=> NeedsNewPage(Y(c)))]_vars

\* C21: an active interview holds a session: isInterviewActive implies a
\* non-null sessionId
C21_ActiveHoldsSession ==
    coach.isInterviewActive => coach.sessionId # 0

\* the handler accepts an answer in this step
AcceptsAnswer == net.kind = "none" /\ net'.kind = "submit"

\* C22 as stated: the transcript starts with an assistant message and then
\* strictly alternates user, assistant
C22_StrictAlternation ==
    \A k \in 1..Len(coach.messages) :
        coach.messages[k] = IF k % 2 = 1 THEN "assistant" ELSE "user"

\* C22 amended: the transcript starts with an assistant message and every
\* later assistant message directly follows a user message; an accepted
\* answer is appended exactly once, before its request is in flight, and the
\* settling request appends at most the one reply and removes nothing
C22_TranscriptOrder ==
    /\ [](/\ coach.messages # <<>> => coach.messages[1] = "assistant"
          /\ \A k \in 2..Len(coach.messages) :
                coach.messages[k] = "assistant" => coach.messages[k - 1] = "user"
          /\ net.kind = "submit" =>
                coach.messages[Len(coach.messages)] = "user")
    /\ [][/\ AcceptsAnswer => coach'.messages = Append(coach.messages, "user")
          /\ SubmitSettles =>
                \/ coach'.messages = coach.messages
                \/ coach'.messages = Append(coach.messages, "assistant")]_vars

C22_Witness ==
    /\ Len(coach.messages) >= 4
    /\ coach.messages[2] = "user" /\ coach.messages[3] = "user"
    /\ coach.messages[4] = "assistant"
    /\ coach.isInterviewActive

\* C24: interviewAnalysis becomes non-null only when a submit request settles
\* with the final analysis, and that step ends the interview; the analysis
\* on the page is never one of an earlier interview shown while a later
\* interview is active
C24_ReportAfterCompletion ==
    /\ [](coach.isInterviewActive => coach.interviewAnalysis = 0)
    /\ [][coach'.interviewAnalysis # coach.interviewAnalysis =>
             /\ SubmitSettles
             /\ coach'.interviewAnalysis = net.session
             /\ coach'.interviewAnalysis # 0
             /\ ~coach'.isInterviewActive]_vars

\* the step sets the field f of resumeData from empty to filled or back
Edits(f) ==
    /\ f \in (form.resumeData.empty \ form'.resumeData.empty)
              \cup (form'.resumeData.empty \ form.resumeData.empty)
    /\ form'.toast = "none"

\* C25: an edit of a field of an experience or education entry removes from
\* validationErrors exactly the error pushed for that field and leaves every
\* other error as it is, the error of the same-named field of the other kind
\* of entry with the same index included
C25_EditClearsOnlyThatField ==
    [][\A f \in Range(RequiredFields) :
          f.section \in {"experience", "education"} /\ Edits(f) =>
              form'.validationErrors =
                  SelectSeq(form.validationErrors,
                            LAMBDA error : error # ValidationError(f))]_vars

\* the click sends the generate-resume request in this step
SendsGenerate == net.kind = "none" /\ net'.kind = "generate"

\* the click on 'Import from LinkedIn' has been handled in this step
LinkedInHandled == form'.toast = "LinkedIn import coming soon!"

\* handleGenerate fails validation in this step
FailsValidation == form'.toast = "Please fill in all required fields"

\* the step sends nothing and leaves isGenerating and generatedResume alone
SendsNothing ==
    /\ net' = net
    /\ form'.isGenerating = form.isGenerating
    /\ form'.generatedResume = form.generatedResume

\* the field f holds the empty string
IsEmpty(data, f) ==
    IF f = SkillsField THEN data.technical_skills = "" ELSE f \in data.empty

\* errors holds exactly one entry for each of the fields
OnePerField(errors, fields) ==
    /\ Len(errors) = Cardinality(fields)
    /\ \A f \in fields : \E k \in DOMAIN errors : errors[k] = ValidationError(f)

\* C26 as stated: handleGenerate sends the request only when no required
\* field is empty; for "linkedin" and for a failed validation it sends
\* nothing and leaves isGenerating and generatedResume unchanged, and after
\* a failed validation validationErrors holds exactly one entry per empty
\* required field
C26_OneErrorPerEmptyField ==
    [][/\ SendsGenerate =>
             \A f \in Range(RequiredFields) : ~IsEmpty(form.resumeData, f)
       /\ LinkedInHandled => SendsNothing
       /\ FailsValidation =>
             /\ SendsNothing
             /\ OnePerField(form'.validationErrors,
                            {f \in Range(RequiredFields) :
                                IsEmpty(form.resumeData, f)})]_vars

\* C26 amended: as stated, with technical_skills counted as missing also
\* when it holds white space only: the request is sent only when every
\* required field is non-empty and technical_skills is not blank, and after
\* a failed validation validationErrors holds exactly one entry per required
\* field that is empty or, for technical_skills, blank
C26_NoRequestWithoutValidInput ==
    [][/\ SendsGenerate =>
             \A f \in Range(RequiredFields) :
                 ~IsEmpty(form.resumeData, f) /\ trim(form.resumeData.technical_skills) # ""
       /\ LinkedInHandled => SendsNothing
       /\ FailsValidation =>
             /\ SendsNothing
             /\ OnePerField(form'.validationErrors,
                            {f \in Range(RequiredFields) :
                                \/ IsEmpty(form.resumeData, f)
                                \/ /\ f = SkillsField
                                   /\ trim(form.resumeData.technical_skills) = ""})]_vars

\* a failed validation of a form with an empty field and blank technical
\* skills has left one error for each
C26_Witness ==
    /\ form.toast = "Please fill in all required fields"
    /\ form.resumeData.technical_skills = " "
    /\ Cardinality(form.resumeData.empty) = 1
    /\ Len(form.validationErrors) = 2
    /\ ~form.isGenerating /\ net = NoRequest

\* C27: whenever handleGenerate fails validation, scrollToError is called
\* with the first error found by that validation run, and an error pushed
\* for an education entry scrolls to the education card of its index
C27_ScrollToFirstInvalid ==
    [][FailsValidation =>
          /\ form'.scrollArg = form'.validationErrors[1]
          /\ form'.scrollArg.pushedFor = "education" =>
                scrollToError(form'.scrollArg) =
                    [card |-> "education", index |-> form'.scrollArg.index]]_vars

\* the busy flags of the two pages
Busy == <<coach.isStarting, coach.isProcessing, form.isGenerating>>

\* C23: each busy flag is set exactly while the request of its handler is
\* in flight: it is cleared in the step in which the request settles, however
\* it settles, and while a request is in flight no click is accepted, so
\* that no second request is sent
C23_BusyFlagsCleared ==
    /\ [](/\ coach.isStarting <=> net.kind = "start"
          /\ coach.isProcessing <=> net.kind = "submit"
          /\ form.isGenerating <=> net.kind = "generate")
    /\ [][net.kind # "none" =>
             \/ /\ net' = NoRequest
                /\ Busy' = <<FALSE, FALSE, FALSE>>
             \/ /\ net' = net
                /\ Busy' = Busy
                /\ coach'.messages = coach.messages]_vars

\* a generate request has failed and the flag is cleared
C23_Witness ==
    /\ route = "resume-generator"
    /\ form.toast = "error"
    /\ ~form.isGenerating
    /\ net = NoRequest
====
